---- MODULE Spec2Model ----
(***************************************************************************)
(* Fenwick (binary-indexed) trees of ViktorSlavkovic/Fenwick:              *)
(*   Fenwick      (fenwick.h)      point update, prefix/range sum, access, *)
(*                                 search, construct, and the fast variants*)
(*   FenwickRURQ  (fenwick_rurq.h) range update / range query on two trees *)
(*   FenwickRMQ   (fenwick_rmq.h)  dynamic range-minimum query             *)
(*   Fenwick2D    (fenwick_2d.h)   point update, prefix/range sum on a grid*)
(* Each structure has its own specification over the shared variables; the *)
(* variables a specification does not use keep their initial value.        *)
(* The int64_t / int arithmetic of the code is modelled on mathematical    *)
(* integers: every value the bounds below allow is far from the type's     *)
(* limits, so no operation of the model reaches an overflow.               *)
(***************************************************************************)
EXTENDS Integers, Sequences, FiniteSets

VARIABLES
  n,      \* Fenwick::n / FenwickRURQ::n / FenwickRMQ::n
  nmask,  \* Fenwick::nmask
  T,      \* Fenwick::T[0..n]
  T1,     \* FenwickRURQ::T1->T[0..n]
  T2,     \* FenwickRURQ::T2->T[0..n]
  a,      \* FenwickRMQ::a[0..n]
  lbit,   \* FenwickRMQ::lbit[0..n]
  rbit,   \* FenwickRMQ::rbit[0..n]
  Tgrid,  \* Fenwick2D::T[0..(n + 1) * (n + 1) - 1]
  fa,     \* the fictive array a[1..n] the calls made so far describe
  steps,  \* number of range-update calls made so far
  last    \* the last call made on the structure: its name op, its arguments
          \* arr, and in aux what the call handed back to its caller or
          \* what it found (for construct: whether some T[i] was not 0)

vars == <<n, nmask, T, T1, T2, a, lbit, rbit, Tgrid, fa, steps, last>>

----------------------------------------------------------------------------
(* Bounds of the model.                                                    *)

\* Orders m range over 1..MaxM, so n = 2^m - 1 ranges over 1, 3, 7.
MaxM == 3
\* Updates are applied while the fictive array keeps |a[1]| + ... + |a[n]|
\* within MaxMass.
MaxMass == 2
\* Arrays handed to construct / fast_construct hold one value of
\* -1..MaxArrVal at a chosen index and a common value of ArrBase elsewhere.
MaxArrVal == 1
\* FenwickRMQ sizes range over 1..MaxN (n need not be 2^m - 1 there).
MaxN == 5
\* FenwickRMQ values range over 0..MaxRmqVal, and INT_MAX.
MaxRmqVal == 2
\* The call-by-call FenwickRMQ specification has sizes 1..MaxCallN.
MaxCallN == 3
\* The range-update structures (FenwickRURQ, and Fenwick used through
\* rupq_update) have orders 1..MaxRurqM, and their runs make at most
\* MaxSteps range updates.
MaxRurqM == 2
MaxSteps == 2
\* Fenwick2D orders range over 1..Max2dM, so its grids are 1 x 1 and 3 x 3;
\* its updates keep the fictive grid's mass within MaxMass.
Max2dM == 2

\* Deltas of the update calls.
Deltas == {-1, 1, 2}
\* What the caller's array may hold at the unused index 0.
Slot0 == {0, 5}
\* The common value of the array elements next to the chosen one.
ArrBase == {0, 1}

----------------------------------------------------------------------------
(* Arithmetic helpers.                                                     *)

Abs(x) == IF x < 0 THEN -x ELSE x

Min2(x, y) == IF x <= y THEN x ELSE y

RECURSIVE Pow2(_)
Pow2(k) == IF k = 0 THEN 1 ELSE 2 * Pow2(k - 1)

\* i & -i for i >= 0: the lowest set bit of i, and 0 for i = 0.
RECURSIVE LowBit(_)
LowBit(i) == IF i = 0 THEN 0
             ELSE IF i % 2 = 1 THEN 1
             ELSE 2 * LowBit(i \div 2)

\* Sum of f[lo..hi] (0 when lo > hi).
RECURSIVE SumRange(_, _, _)
SumRange(f, lo, hi) == IF lo > hi THEN 0 ELSE f[hi] + SumRange(f, lo, hi - 1)

\* Minimum of f[lo..hi], starting from init (init when lo > hi).
RECURSIVE MinRange(_, _, _, _)
MinRange(f, lo, hi, init) ==
  IF lo > hi THEN init ELSE MinRange(f, lo, hi - 1, Min2(init, f[hi]))

\* Number of trailing zero bits of i >= 1.
RECURSIVE TrailingZeros(_)
TrailingZeros(i) == IF i % 2 = 1 THEN 0 ELSE 1 + TrailingZeros(i \div 2)

\* The k with 2^k = p, for p a power of two.
RECURSIVE Log2(_)
Log2(p) == IF p <= 1 THEN 0 ELSE 1 + Log2(p \div 2)

Mass(f, nn) == SumRange([i \in 1..nn |-> Abs(f[i])], 1, nn)

Zeros(nn) == [i \in 0..nn |-> 0]

----------------------------------------------------------------------------
(* Fenwick (fenwick.h).  Tr is the storage array T[0..nn].                 *)

\* for (; idx >= 1; idx -= idx & -idx) sum += T[idx];
RECURSIVE prefix_sum_loop(_, _, _)
prefix_sum_loop(Tr, idx, sum) ==
  IF idx >= 1
    THEN prefix_sum_loop(Tr, idx - LowBit(idx), sum + Tr[idx])
    ELSE sum

\* The loop that steps down by one: it adds T[idx], T[idx - 1], ..., T[1].
prefix_sum_step_one(Tr, idx) == SumRange(Tr, 1, idx)

prefix_sum(Tr, idx) == prefix_sum_loop(Tr, idx, 0)

\* for (; idx <= n; idx += idx & -idx) T[idx] += delta;
RECURSIVE update_wrong_step(_, _, _, _)
update_wrong_step(Tr, nn, idx, delta) ==
  IF idx <= nn
    THEN update_wrong_step([Tr EXCEPT ![idx] = @ + delta], nn, 2 * idx, delta)
    ELSE Tr

RECURSIVE update(_, _, _, _)
update(Tr, nn, idx, delta) ==
  IF idx <= nn
    THEN update([Tr EXCEPT ![idx] = @ + delta], nn, idx + LowBit(idx), delta)
    ELSE Tr

\* for (int i = n; i >= 1; i--) { T[i] = 0LL; update(i, a[i]); }
RECURSIVE construct_loop(_, _, _, _)
construct_loop(Tr, nn, arr, i) ==
  IF i >= 1
    THEN construct_loop(update([Tr EXCEPT ![i] = 0], nn, i, arr[i]),
                        nn, arr, i - 1)
    ELSE Tr

\* The same loop without the T[i] = 0 reset.
RECURSIVE construct_noreset_loop(_, _, _, _)
construct_noreset_loop(Tr, nn, arr, i) ==
  IF i >= 1
    THEN construct_noreset_loop(update(Tr, nn, i, arr[i]), nn, arr, i - 1)
    ELSE Tr

construct_noreset(Tr, nn, arr) == construct_noreset_loop(Tr, nn, arr, nn)

construct(Tr, nn, arr) == construct_loop(Tr, nn, arr, nn)

\* for (i = 1; i <= n; i++) a[i] += a[i - 1], in place in the caller's array
RECURSIVE cumulative_loop(_, _, _)
cumulative_loop(arr, nn, i) ==
  IF i <= nn
    THEN cumulative_loop([arr EXCEPT ![i] = arr[i] + arr[i - 1]], nn, i + 1)
    ELSE arr

\* The same pass without the a[0] = 0 that precedes it.
cumulative_keep_slot0(arr, nn) == cumulative_loop(arr, nn, 1)

\* a[0] = 0; then the pass above: the caller's array after fast_construct.
cumulative(arr, nn) == cumulative_loop([arr EXCEPT ![0] = 0], nn, 1)

\* The second loop of fast_construct run on the array as passed, without
\* the cumulative pass.
fast_construct_no_sums(Tr, nn, arr) ==
  [i \in 0..nn |->
     IF i = 0 THEN Tr[0]
     ELSE LET ii == i - LowBit(i) IN
          IF ii = 0 THEN arr[i] ELSE arr[i] - arr[ii]]

\* for (i = 1..n) { ii = i - (i & -i); T[i] = (ii == 0) ? a[i] : a[i] - a[ii]; }
fast_construct(Tr, nn, arr) ==
  LET c == cumulative(arr, nn) IN
  [i \in 0..nn |->
     IF i = 0 THEN Tr[0]
     ELSE LET ii == i - LowBit(i) IN
          IF ii = 0 THEN c[i] ELSE c[i] - c[ii]]

\* std::fill_n(T, n + 1, 0LL)
clear(Tr, nn) == Zeros(nn)

access(Tr, idx) ==
  IF idx = 1 THEN Tr[1] ELSE prefix_sum(Tr, idx) - prefix_sum(Tr, idx - 1)

\* while (i != j) { if (i > j) { sum += T[i]; i -= i & -i; }
\*                  else { sum -= T[j]; j -= j & -j; } }
RECURSIVE two_pointer_loop(_, _, _, _)
two_pointer_loop(Tr, sum, i, j) ==
  IF i /= j
    THEN IF i > j
           THEN two_pointer_loop(Tr, sum + Tr[i], i - LowBit(i), j)
           ELSE two_pointer_loop(Tr, sum - Tr[j], i, j - LowBit(j))
    ELSE sum

fast_access_no_loop(Tr, idx) == Tr[idx]

fast_access(Tr, idx) ==
  two_pointer_loop(Tr, Tr[idx], idx - LowBit(idx), idx - 1)

\* for (i = 1..n) if (prefix_sum(i) >= val) return i;  return n + 1;
RECURSIVE search_loop(_, _, _, _)
search_loop(Tr, nn, val, i) ==
  IF i <= nn
    THEN IF prefix_sum(Tr, i) >= val THEN i ELSE search_loop(Tr, nn, val, i + 1)
    ELSE nn + 1

RECURSIVE search_strict_loop(_, _, _, _)
search_strict_loop(Tr, nn, val, i) ==
  IF i <= nn
    THEN IF prefix_sum(Tr, i) > val THEN i
         ELSE search_strict_loop(Tr, nn, val, i + 1)
    ELSE nn + 1

search_strict(Tr, nn, val) == search_strict_loop(Tr, nn, val, 1)

search(Tr, nn, val) == search_loop(Tr, nn, val, 1)

\* while (mask != 0) { ii = i + mask; mask >>= 1; if (ii > n) continue;
\*                     if (T[ii] <= val) { val -= T[ii]; i = ii; } }
RECURSIVE fast_search_loop(_, _, _, _, _)
fast_search_loop(Tr, nn, val, i, mask) ==
  IF mask /= 0
    THEN LET ii == i + mask
             m2 == mask \div 2
         IN IF ii > nn THEN fast_search_loop(Tr, nn, val, i, m2)
            ELSE IF Tr[ii] <= val
                   THEN fast_search_loop(Tr, nn, val - Tr[ii], ii, m2)
                   ELSE fast_search_loop(Tr, nn, val, i, m2)
    ELSE i + 1

\* fast_search without the initial val--.
fast_search_no_dec(Tr, nn, mask, val) == fast_search_loop(Tr, nn, val, 0, mask)

fast_search(Tr, nn, mask, val) == fast_search_loop(Tr, nn, val - 1, 0, mask)

\* The run of fast_access's while loop on the pointers alone: the number of
\* iterations, how many of them took the i > j branch, and where i ends.
\* The loop of the code has no bound; fuel is how many iterations the model
\* follows, and done says whether the pointers met within them.
RECURSIVE fast_access_trace_loop(_, _, _, _, _)
fast_access_trace_loop(i, j, iters, imoves, fuel) ==
  IF i = j THEN [done |-> TRUE, iters |-> iters, imoves |-> imoves, i |-> i]
  ELSE IF fuel = 0
    THEN [done |-> FALSE, iters |-> iters, imoves |-> imoves, i |-> i]
  ELSE IF i > j
    THEN fast_access_trace_loop(i - LowBit(i), j, iters + 1, imoves + 1,
                                fuel - 1)
    ELSE fast_access_trace_loop(i, j - LowBit(j), iters + 1, imoves,
                                fuel - 1)

\* The run with j started at idx instead of idx - 1.
fast_access_trace_j_at_idx(nn, idx) ==
  fast_access_trace_loop(idx - LowBit(idx), idx, 0, 0, 2 * nn)

\* int i = idx - (idx & -idx); int j = idx - 1; while (i != j) ...
fast_access_trace(nn, idx) ==
  fast_access_trace_loop(idx - LowBit(idx), idx - 1, 0, 0, 2 * nn)

\* The run of fast_search's while loop: the value returned, how many
\* iterations took the ii > n skip, and the candidates ii it computed.
RECURSIVE fast_search_trace_loop(_, _, _, _, _, _, _)
fast_search_trace_loop(Tr, nn, val, i, mask, skips, cands) ==
  IF mask /= 0
    THEN LET ii == i + mask
             m2 == mask \div 2
         IN IF ii > nn
              THEN fast_search_trace_loop(Tr, nn, val, i, m2, skips + 1,
                                          cands \cup {ii})
            ELSE IF Tr[ii] <= val
              THEN fast_search_trace_loop(Tr, nn, val - Tr[ii], ii, m2, skips,
                                          cands \cup {ii})
              ELSE fast_search_trace_loop(Tr, nn, val, i, m2, skips,
                                          cands \cup {ii})
    ELSE [ret |-> i + 1, skips |-> skips, cands |-> cands]

\* The run started from the mask 2 * nmask.
fast_search_trace_wide(Tr, nn, mask, val) ==
  fast_search_trace_loop(Tr, nn, val - 1, 0, 2 * mask, 0, {})

\* val--; int i = 0; int mask = nmask; while (mask != 0) ...
fast_search_trace(Tr, nn, mask, val) ==
  fast_search_trace_loop(Tr, nn, val - 1, 0, mask, 0, {})

range_sum_no_guard(Tr, l, r) == prefix_sum(Tr, r) - prefix_sum(Tr, l)

range_sum(Tr, l, r) ==
  LET sum == prefix_sum(Tr, r) IN
  IF l > 1 THEN sum - prefix_sum(Tr, l - 1) ELSE sum

fast_range_sum_from_l(Tr, l, r) ==
  two_pointer_loop(Tr, Tr[r], r - LowBit(r), l)

fast_range_sum(Tr, l, r) ==
  two_pointer_loop(Tr, Tr[r], r - LowBit(r), l - 1)

\* rupq_update without the update at r + 1 that ends the range.
rupq_update_no_end(Tr, nn, l, r, delta) == update(Tr, nn, l, delta)

\* update(l, delta); if (r < n) update(r + 1, -delta);
rupq_update(Tr, nn, l, r, delta) ==
  LET t == update(Tr, nn, l, delta) IN
  IF r < nn THEN update(t, nn, r + 1, -delta) ELSE t

\* return prefix_sum(idx);
rupq_access(Tr, idx) == prefix_sum(Tr, idx)

----------------------------------------------------------------------------
(* The Fenwick specification: allocate(m), then update, construct,         *)
(* fast_construct and clear in any order.                                  *)

NoCall == [op |-> "allocate", arr |-> <<>>, aux |-> <<>>]

\* Fenwick::allocate(m)
Init ==
  \E m \in 1..MaxM :
    /\ n = Pow2(m) - 1
    /\ nmask = Pow2(m - 1)
    /\ T = Zeros(Pow2(m) - 1)
    /\ fa = [i \in 1..(Pow2(m) - 1) |-> 0]
    /\ T1 = <<>> /\ T2 = <<>>
    /\ a = <<>> /\ lbit = <<>> /\ rbit = <<>> /\ Tgrid = <<>>
    /\ steps = 0
    /\ last = NoCall

\* Arrays of size n + 1 a caller may pass: v at index i, b elsewhere in
\* 1..n, and z at the unused index 0.
ArrayOf(nn, i, v, b, z) ==
  [k \in 0..nn |-> IF k = 0 THEN z ELSE IF k = i THEN v ELSE b]

ArrVals == -1..MaxArrVal

Update(idx, delta) ==
  /\ Mass([fa EXCEPT ![idx] = @ + delta], n) <= MaxMass
  /\ T' = update(T, n, idx, delta)
  /\ fa' = [fa EXCEPT ![idx] = @ + delta]
  /\ last' = [op |-> "update", arr |-> <<>>, aux |-> <<>>]
  /\ UNCHANGED <<n, nmask, T1, T2, a, lbit, rbit, Tgrid, steps>>

Construct(arr) ==
  /\ T' = construct(T, n, arr)
  /\ fa' = [i \in 1..n |-> arr[i]]
  /\ last' = [op |-> "construct", arr |-> arr,
              aux |-> <<\E i \in 1..n : T[i] /= 0>>]
  /\ UNCHANGED <<n, nmask, T1, T2, a, lbit, rbit, Tgrid, steps>>

FastConstruct(arr) ==
  /\ T' = fast_construct(T, n, arr)
  /\ fa' = [i \in 1..n |-> arr[i]]
  /\ last' = [op |-> "fast_construct", arr |-> arr,
              aux |-> cumulative(arr, n)]
  /\ UNCHANGED <<n, nmask, T1, T2, a, lbit, rbit, Tgrid, steps>>

Clear ==
  /\ T' = clear(T, n)
  /\ fa' = [i \in 1..n |-> 0]
  /\ last' = [op |-> "clear", arr |-> <<>>, aux |-> <<>>]
  /\ UNCHANGED <<n, nmask, T1, T2, a, lbit, rbit, Tgrid, steps>>

DoUpdate == \E idx \in 1..n, delta \in Deltas : Update(idx, delta)

\* An array with v = b is the same for every i: it is passed once, as i = 1.
\* construct never reads a[0], which is passed as 0.
DoConstruct ==
  \E i \in 1..n, v \in ArrVals, b \in ArrBase :
    /\ v /= b \/ i = 1
    /\ Construct(ArrayOf(n, i, v, b, 0))

DoFastConstruct ==
  \E i \in 1..n, v \in ArrVals, b \in ArrBase, z \in Slot0 :
    /\ v /= b \/ i = 1
    /\ FastConstruct(ArrayOf(n, i, v, b, z))

\* The array a = [_, 5, 3, 8, 1, 9, 2, 7] of the worked example, for the
\* tree of order 3; its unused slot 0 is passed as 0.
ExampleArr == [k \in 0..7 |-> <<0, 5, 3, 8, 1, 9, 2, 7>>[k + 1]]

DoConstructExample ==
  /\ n = Len(<<5, 3, 8, 1, 9, 2, 7>>)
  /\ Construct(ExampleArr)

Next ==
  DoUpdate \/ DoConstruct \/ DoFastConstruct \/ Clear \/ DoConstructExample

Spec == Init /\ [][Next]_vars

----------------------------------------------------------------------------
(* The point-update specification: allocate(m), then update and clear.     *)

NextPU == DoUpdate \/ Clear

SpecPU == Init /\ [][NextPU]_vars

----------------------------------------------------------------------------
(* The range-update point-query specification: allocate(m), then           *)
(* rupq_update and clear; fa is the array the range updates describe.      *)

\* Fenwick::allocate(m)
InitRUPQ ==
  \E m \in 1..MaxRurqM :
    /\ n = Pow2(m) - 1
    /\ nmask = Pow2(m - 1)
    /\ T = Zeros(Pow2(m) - 1)
    /\ fa = [i \in 1..(Pow2(m) - 1) |-> 0]
    /\ T1 = <<>> /\ T2 = <<>>
    /\ a = <<>> /\ lbit = <<>> /\ rbit = <<>> /\ Tgrid = <<>>
    /\ steps = 0
    /\ last = NoCall

RUPQUpdate(l, r, delta) ==
  /\ steps < MaxSteps
  /\ T' = rupq_update(T, n, l, r, delta)
  /\ fa' = [x \in 1..n |-> IF l <= x /\ x <= r THEN fa[x] + delta ELSE fa[x]]
  /\ steps' = steps + 1
  /\ last' = [op |-> "rupq_update", arr |-> <<l, r, delta>>, aux |-> <<>>]
  /\ UNCHANGED <<n, nmask, T1, T2, a, lbit, rbit, Tgrid>>

DoRUPQUpdate ==
  \E l \in 1..n : \E r \in l..n, delta \in Deltas : RUPQUpdate(l, r, delta)

NextRUPQ == DoRUPQUpdate \/ Clear

SpecRUPQ == InitRUPQ /\ [][NextRUPQ]_vars

----------------------------------------------------------------------------
(* FenwickRURQ (fenwick_rurq.h): two Fenwick trees T1, T2 of one size.     *)

\* T1->update(l, delta); T2->update(l, delta * (l - 1));
\* if (r < n) { T1->update(r + 1, -delta); T2->update(r + 1, delta * r); }
RURQ_update_T1(Tr, nn, l, r, delta) ==
  LET t == update(Tr, nn, l, delta) IN
  IF r < nn THEN update(t, nn, r + 1, -delta) ELSE t

\* The update of T2 that subtracts delta * r at r + 1.
RURQ_update_T2_negated(Tr, nn, l, r, delta) ==
  LET t == update(Tr, nn, l, delta * (l - 1)) IN
  IF r < nn THEN update(t, nn, r + 1, -(delta * r)) ELSE t

RURQ_update_T2(Tr, nn, l, r, delta) ==
  LET t == update(Tr, nn, l, delta * (l - 1)) IN
  IF r < nn THEN update(t, nn, r + 1, delta * r) ELSE t

\* The prefix sum read from T1 alone.
RURQ_prefix_sum_no_T2(Ta, Tb, idx) == prefix_sum(Ta, idx) * idx

\* T1->prefix_sum(idx) * idx - T2->prefix_sum(idx)
RURQ_prefix_sum(Ta, Tb, idx) == prefix_sum(Ta, idx) * idx - prefix_sum(Tb, idx)

RURQ_range_sum(Ta, Tb, l, r) ==
  LET sum == RURQ_prefix_sum(Ta, Tb, r) IN
  IF l > 1 THEN sum - RURQ_prefix_sum(Ta, Tb, l - 1) ELSE sum

\* FenwickRURQ(m)
InitRURQ ==
  \E m \in 1..MaxRurqM :
    /\ n = Pow2(m) - 1
    /\ T1 = Zeros(Pow2(m) - 1)
    /\ T2 = Zeros(Pow2(m) - 1)
    /\ fa = [i \in 1..(Pow2(m) - 1) |-> 0]
    /\ nmask = 0 /\ T = <<>>
    /\ a = <<>> /\ lbit = <<>> /\ rbit = <<>> /\ Tgrid = <<>>
    /\ steps = 0
    /\ last = [op |-> "FenwickRURQ", arr |-> <<>>, aux |-> <<>>]

RURQUpdate(l, r, delta) ==
  /\ steps < MaxSteps
  /\ T1' = RURQ_update_T1(T1, n, l, r, delta)
  /\ T2' = RURQ_update_T2(T2, n, l, r, delta)
  /\ fa' = [x \in 1..n |-> IF l <= x /\ x <= r THEN fa[x] + delta ELSE fa[x]]
  /\ steps' = steps + 1
  /\ last' = [op |-> "update", arr |-> <<l, r, delta>>, aux |-> <<>>]
  /\ UNCHANGED <<n, nmask, T, a, lbit, rbit, Tgrid>>

NextRURQ == \E l \in 1..n : \E r \in l..n, delta \in Deltas : RURQUpdate(l, r, delta)

SpecRURQ == InitRURQ /\ [][NextRURQ]_vars

\* FenwickRURQ whose callers only pass r = n: the suffix range-adds.
NextRURQSuffix == \E l \in 1..n, delta \in Deltas : RURQUpdate(l, n, delta)

SpecRURQSuffix == InitRURQ /\ [][NextRURQSuffix]_vars

----------------------------------------------------------------------------
(* FenwickRMQ (fenwick_rmq.h): the array a and the trees lbit, rbit, all   *)
(* indexed 0..n.                                                           *)

INT_MAX == 2147483647

\* int query(int from, int to)
RECURSIVE query_climb_rbit(_, _, _, _, _)
query_climb_rbit(rb, nn, to, i, res) ==
  LET ii == i + LowBit(i) IN
  IF i <= nn /\ ii - 1 <= to
    THEN query_climb_rbit(rb, nn, to, ii, Min2(res, rb[i]))
    ELSE [i |-> i, res |-> res]

RECURSIVE query_climb_lbit(_, _, _, _)
query_climb_lbit(lb, from, i, res) ==
  LET ii == i - LowBit(i) IN
  IF i >= 1 /\ ii + 1 >= from
    THEN query_climb_lbit(lb, from, ii, Min2(res, lb[i]))
    ELSE [i |-> i, res |-> res]

\* query without the two direct a[i] reads after the climbs.
query_no_elem(ar, lb, rb, nn, from, to) ==
  IF from < 1 \/ to > nn \/ from > to THEN INT_MAX
  ELSE LET up == query_climb_rbit(rb, nn, to, from, INT_MAX)
           dn == query_climb_lbit(lb, from, to, up.res)
       IN dn.res

\* query that takes a range reaching past n as the range up to n.
query_clamp_to(ar, lb, rb, nn, from, to) ==
  IF from < 1 THEN INT_MAX
  ELSE IF from > to THEN INT_MAX
  ELSE LET t  == Min2(to, nn)
           up == query_climb_rbit(rb, nn, t, from, INT_MAX)
           r1 == IF up.i <= t THEN Min2(up.res, ar[up.i]) ELSE up.res
           dn == query_climb_lbit(lb, from, t, r1)
       IN IF dn.i >= from THEN Min2(dn.res, ar[dn.i]) ELSE dn.res

query(ar, lb, rb, nn, from, to) ==
  IF from < 1 THEN INT_MAX
  ELSE IF to > nn THEN INT_MAX
  ELSE IF from > to THEN INT_MAX
  ELSE LET up == query_climb_rbit(rb, nn, to, from, INT_MAX)
           r1 == IF up.i <= to THEN Min2(up.res, ar[up.i]) ELSE up.res
           dn == query_climb_lbit(lb, from, to, r1)
       IN IF dn.i >= from THEN Min2(dn.res, ar[dn.i]) ELSE dn.res

\* The slots rbit[i] the "Climb rbit" loop reads, from i on.
RECURSIVE query_reads_rbit(_, _, _)
query_reads_rbit(nn, to, i) ==
  LET ii == i + LowBit(i) IN
  IF i <= nn /\ ii - 1 <= to
    THEN {<<"rbit", i>>} \cup query_reads_rbit(nn, to, ii)
    ELSE {}

\* The slots lbit[i] the "Climb lbit" loop reads, from i on.
RECURSIVE query_reads_lbit(_, _)
query_reads_lbit(from, i) ==
  LET ii == i - LowBit(i) IN
  IF i >= 1 /\ ii + 1 >= from
    THEN {<<"lbit", i>>} \cup query_reads_lbit(from, ii)
    ELSE {}

\* The slots of a, lbit and rbit one call of query reads: none on the three
\* early returns, else those of the two climbs and of the a[i] after each.
query_reads(ar, lb, rb, nn, from, to) ==
  IF from < 1 THEN {}
  ELSE IF to > nn THEN {}
  ELSE IF from > to THEN {}
  ELSE LET up == query_climb_rbit(rb, nn, to, from, INT_MAX)
           dn == query_climb_lbit(lb, from, to, up.res)
       IN query_reads_rbit(nn, to, from)
            \cup (IF up.i <= to THEN {<<"a", up.i>>} ELSE {})
            \cup query_reads_lbit(from, to)
            \cup (IF dn.i >= from THEN {<<"a", dn.i>>} ELSE {})

\* SIDES_INIT
SIDES_INIT(idx) ==
  [lr |-> idx - 1, ll |-> (idx - 1) - LowBit(idx - 1), lmin |-> INT_MAX,
   rl |-> idx + 1, rr |-> (idx + 1) + LowBit(idx + 1), rmin |-> INT_MAX]

\* SIDES_UPDATE, left half: while (lr >= 1 && ll + 1 >= l) {...}
\*                          if (lr >= l) lmin = min(lmin, a[lr]);
RECURSIVE sides_left(_, _, _, _)
sides_left(s, ar, lb, l) ==
  IF s.lr >= 1 /\ s.ll + 1 >= l
    THEN sides_left([s EXCEPT !.lmin = Min2(s.lmin, lb[s.lr]),
                              !.lr = s.ll,
                              !.ll = s.ll - LowBit(s.ll)], ar, lb, l)
    ELSE IF s.lr >= l THEN [s EXCEPT !.lmin = Min2(s.lmin, ar[s.lr])] ELSE s

\* SIDES_UPDATE, right half: while (rl <= n && rr - 1 <= r) {...}
\*                           if (rl <= std::min(n, r)) rmin = min(rmin, a[rl]);
RECURSIVE sides_right(_, _, _, _, _)
sides_right(s, ar, rb, nn, r) ==
  IF s.rl <= nn /\ s.rr - 1 <= r
    THEN sides_right([s EXCEPT !.rmin = Min2(s.rmin, rb[s.rl]),
                               !.rl = s.rr,
                               !.rr = s.rr + LowBit(s.rr)], ar, rb, nn, r)
    ELSE IF s.rl <= Min2(nn, r)
           THEN [s EXCEPT !.rmin = Min2(s.rmin, ar[s.rl])]
           ELSE s

SIDES_UPDATE(s, ar, lb, rb, nn, l, r) ==
  sides_right(sides_left(s, ar, lb, l), ar, rb, nn, r)

\* The "Update lbit" loop: while (r <= n) {...}; l = r - (r & -r) + 1.
RECURSIVE update_lbit(_, _, _, _, _, _, _, _)
update_lbit(ar, lb, rb, nn, idx, val, r, s) ==
  IF r <= nn
    THEN LET l == r - LowBit(r) + 1
             nr == r + LowBit(r)
         IN IF val <= lb[r]
              THEN update_lbit(ar, [lb EXCEPT ![r] = val], rb, nn, idx, val, nr, s)
              ELSE IF lb[r] = ar[idx]
                THEN LET s2 == SIDES_UPDATE(s, ar, lb, rb, nn, l, r) IN
                     update_lbit(ar,
                                 [lb EXCEPT ![r] = Min2(val, Min2(s2.lmin, s2.rmin))],
                                 rb, nn, idx, val, nr, s2)
                ELSE update_lbit(ar, lb, rb, nn, idx, val, nr, s)
    ELSE lb

\* The "Update rbit" loop: while (l >= 1) {...}; r = l + (l & -l) - 1.
RECURSIVE update_rbit(_, _, _, _, _, _, _, _)
update_rbit(ar, lb, rb, nn, idx, val, l, s) ==
  IF l >= 1
    THEN LET r == l + LowBit(l) - 1
             nl == l - LowBit(l)
         IN IF val <= rb[l]
              THEN update_rbit(ar, lb, [rb EXCEPT ![l] = val], nn, idx, val, nl, s)
              ELSE IF rb[l] = ar[idx]
                THEN LET s2 == SIDES_UPDATE(s, ar, lb, rb, nn, l, r) IN
                     update_rbit(ar, lb,
                                 [rb EXCEPT ![l] = Min2(val, Min2(s2.lmin, s2.rmin))],
                                 nn, idx, val, nl, s2)
                ELSE update_rbit(ar, lb, rb, nn, idx, val, nl, s)
    ELSE rb

\* The indices r the "Update lbit" loop visits: r = idx; r <= n;
\* r = r + (r & -r).
RECURSIVE UpChain(_, _)
UpChain(r, nn) == IF r <= nn THEN {r} \cup UpChain(r + LowBit(r), nn) ELSE {}

\* The indices l the "Update rbit" loop visits: l = idx; l >= 1;
\* l = l - (l & -l).
RECURSIVE DownChain(_)
DownChain(l) == IF l >= 1 THEN {l} \cup DownChain(l - LowBit(l)) ELSE {}

\* update that never rescans a node: the else-if branch is dropped.
RMQ_update_no_rescan(ar, lb, rb, nn, idx, val) ==
  IF ar[idx] = val THEN [a |-> ar, lbit |-> lb, rbit |-> rb]
  ELSE [a    |-> [ar EXCEPT ![idx] = val],
        lbit |-> [i \in 0..nn |->
                    IF i >= idx /\ i - LowBit(i) < idx /\ val <= lb[i]
                      THEN val ELSE lb[i]],
        rbit |-> [i \in 0..nn |->
                    IF 1 <= i /\ i <= idx /\ idx < i + LowBit(i) /\ val <= rb[i]
                      THEN val ELSE rb[i]]]

\* update that writes val into a[idx] and into every tree node over idx,
\* whatever the nodes and a[idx] hold.
RMQ_update_overwrite(ar, lb, rb, nn, idx, val) ==
  [a    |-> [ar EXCEPT ![idx] = val],
   lbit |-> [i \in 0..nn |->
               IF i >= idx /\ i - LowBit(i) < idx THEN val ELSE lb[i]],
   rbit |-> [i \in 0..nn |->
               IF 1 <= i /\ i <= idx /\ idx < i + LowBit(i) THEN val ELSE rb[i]]]

\* void update(int idx, int val): the fields a, lbit, rbit afterwards.
RMQ_update(ar, lb, rb, nn, idx, val) ==
  IF ar[idx] = val THEN [a |-> ar, lbit |-> lb, rbit |-> rb]
  ELSE LET lb2 == update_lbit(ar, lb, rb, nn, idx, val, idx, SIDES_INIT(idx))
           rb2 == update_rbit(ar, lb2, rb, nn, idx, val, idx, SIDES_INIT(idx))
       IN [a |-> [ar EXCEPT ![idx] = val], lbit |-> lb2, rbit |-> rb2]

RmqVals == (0..MaxRmqVal) \cup {INT_MAX}

\* FenwickRMQ(n)
InitRMQ ==
  \E nn \in 1..MaxN :
    /\ n = nn
    /\ a = [i \in 0..nn |-> INT_MAX]
    /\ lbit = [i \in 0..nn |-> INT_MAX]
    /\ rbit = [i \in 0..nn |-> INT_MAX]
    /\ fa = [i \in 1..nn |-> INT_MAX]
    /\ nmask = 0 /\ T = <<>> /\ T1 = <<>> /\ T2 = <<>> /\ Tgrid = <<>>
    /\ steps = 0
    /\ last = [op |-> "FenwickRMQ", arr |-> <<>>, aux |-> <<>>]

RMQUpdate(idx, val) ==
  LET u == RMQ_update(a, lbit, rbit, n, idx, val) IN
  /\ a' = u.a
  /\ lbit' = u.lbit
  /\ rbit' = u.rbit
  /\ fa' = [fa EXCEPT ![idx] = val]
  /\ last' = [op |-> "update", arr |-> <<idx, val>>, aux |-> <<>>]
  /\ UNCHANGED <<n, nmask, T, T1, T2, Tgrid, steps>>

NextRMQ == \E idx \in 1..n, val \in RmqVals : RMQUpdate(idx, val)

SpecRMQ == InitRMQ /\ [][NextRMQ]_vars

----------------------------------------------------------------------------
(* The worked FenwickRMQ example: a fresh instance of size 5 and the calls *)
(* update(1,5), update(2,3), update(3,1), update(4,4), update(5,2) and     *)
(* update(3,10), made in any order and any number of times.                *)

ExampleVals == <<5, 3, 1, 4, 2>>

ExampleUpdates == {<<i, ExampleVals[i]>> : i \in 1..Len(ExampleVals)} \cup {<<3, 10>>}

\* FenwickRMQ(5)
InitRMQExample ==
  /\ n = Len(ExampleVals)
  /\ a = [i \in 0..Len(ExampleVals) |-> INT_MAX]
  /\ lbit = [i \in 0..Len(ExampleVals) |-> INT_MAX]
  /\ rbit = [i \in 0..Len(ExampleVals) |-> INT_MAX]
  /\ fa = [i \in 1..Len(ExampleVals) |-> INT_MAX]
  /\ nmask = 0 /\ T = <<>> /\ T1 = <<>> /\ T2 = <<>> /\ Tgrid = <<>>
  /\ steps = 0
  /\ last = [op |-> "FenwickRMQ", arr |-> <<>>, aux |-> <<>>]

NextRMQExample == \E u \in ExampleUpdates : RMQUpdate(u[1], u[2])

SpecRMQExample == InitRMQExample /\ [][NextRMQExample]_vars

----------------------------------------------------------------------------
(* FenwickRMQ seen call by call: update and query in any order, on sizes   *)
(* 1..MaxCallN.  last.arr holds the arguments of the call; last.aux holds, *)
(* for query, the value returned and the slots read, and for update, the   *)
(* value a[idx] held when the call was made.                               *)

\* FenwickRMQ(n)
InitRMQCalls ==
  \E nn \in 1..MaxCallN :
    /\ n = nn
    /\ a = [i \in 0..nn |-> INT_MAX]
    /\ lbit = [i \in 0..nn |-> INT_MAX]
    /\ rbit = [i \in 0..nn |-> INT_MAX]
    /\ fa = [i \in 1..nn |-> INT_MAX]
    /\ nmask = 0 /\ T = <<>> /\ T1 = <<>> /\ T2 = <<>> /\ Tgrid = <<>>
    /\ steps = 0
    /\ last = [op |-> "FenwickRMQ", arr |-> <<>>, aux |-> <<>>]

RMQCallUpdate(idx, val) ==
  LET u == RMQ_update(a, lbit, rbit, n, idx, val) IN
  /\ a' = u.a
  /\ lbit' = u.lbit
  /\ rbit' = u.rbit
  /\ fa' = [fa EXCEPT ![idx] = val]
  /\ last' = [op |-> "update", arr |-> <<idx, val>>, aux |-> <<a[idx]>>]
  /\ UNCHANGED <<n, nmask, T, T1, T2, Tgrid, steps>>

\* query writes no member: it returns a value.
RMQCallQuery(from, to) ==
  /\ last' = [op |-> "query", arr |-> <<from, to>>,
              aux |-> <<query(a, lbit, rbit, n, from, to),
                        query_reads(a, lbit, rbit, n, from, to)>>]
  /\ UNCHANGED <<n, nmask, T, T1, T2, a, lbit, rbit, Tgrid, fa, steps>>

DoRMQCallUpdate == \E idx \in 1..n, val \in RmqVals : RMQCallUpdate(idx, val)

\* Arguments from 0 to n + 1: valid ranges, and each kind of invalid one.
DoRMQCallQuery ==
  \E from \in 0..(n + 1), to \in 0..(n + 1) : RMQCallQuery(from, to)

NextRMQCalls == DoRMQCallUpdate \/ DoRMQCallQuery

SpecRMQCalls == InitRMQCalls /\ [][NextRMQCalls]_vars

----------------------------------------------------------------------------
(* Fenwick2D (fenwick_2d.h).  Tg is the storage array T, where the cell of *)
(* (x, y) is T[(n + 1) * y + x]; the fictive grid is g[x][y].              *)

\* Sum of g[x][y] over x1 <= x <= x2 and y1 <= y <= y2.
RECURSIVE GridSum(_, _, _, _, _)
GridSum(g, x1, x2, y1, y2) ==
  IF x1 > x2 THEN 0
  ELSE SumRange(g[x2], y1, y2) + GridSum(g, x1, x2 - 1, y1, y2)

\* |g[1][1]| + ... + |g[nn][nn]|
RECURSIVE MassRows(_, _, _)
MassRows(g, nn, x) ==
  IF x = 0 THEN 0 ELSE Mass(g[x], nn) + MassRows(g, nn, x - 1)

Mass2D(g, nn) == MassRows(g, nn, nn)

ZeroGrid(nn) == [i \in 0..((nn + 1) * (nn + 1) - 1) |-> 0]

\* for (; yy >= 1; yy -= yy & -yy) sum += T[(n + 1) * yy + x];
RECURSIVE F2D_prefix_sum_inner(_, _, _, _, _)
F2D_prefix_sum_inner(Tg, nn, x, yy, sum) ==
  IF yy >= 1
    THEN F2D_prefix_sum_inner(Tg, nn, x, yy - LowBit(yy),
                              sum + Tg[(nn + 1) * yy + x])
    ELSE sum

\* for (; x >= 1; x -= x & -x) { int yy = y; <inner loop> }
RECURSIVE F2D_prefix_sum_outer(_, _, _, _, _)
F2D_prefix_sum_outer(Tg, nn, x, y, sum) ==
  IF x >= 1
    THEN F2D_prefix_sum_outer(Tg, nn, x - LowBit(x), y,
                              F2D_prefix_sum_inner(Tg, nn, x, y, sum))
    ELSE sum

F2D_prefix_sum(Tg, nn, x, y) == F2D_prefix_sum_outer(Tg, nn, x, y, 0)

\* for (; yy <= n; yy += yy & -yy) T[(n + 1) * yy + x] += delta;
RECURSIVE F2D_update_inner(_, _, _, _, _)
F2D_update_inner(Tg, nn, x, yy, delta) ==
  IF yy <= nn
    THEN F2D_update_inner([Tg EXCEPT ![(nn + 1) * yy + x] = @ + delta],
                          nn, x, yy + LowBit(yy), delta)
    ELSE Tg

\* for (; x <= n; x += x & -x) { int yy = y; <inner loop> }
RECURSIVE F2D_update_outer(_, _, _, _, _)
F2D_update_outer(Tg, nn, x, y, delta) ==
  IF x <= nn
    THEN F2D_update_outer(F2D_update_inner(Tg, nn, x, y, delta),
                          nn, x + LowBit(x), y, delta)
    ELSE Tg

\* The update that touches column x only: its outer loop makes one pass.
F2D_update_one_column(Tg, nn, x, y, delta) ==
  F2D_update_inner(Tg, nn, x, y, delta)

F2D_update(Tg, nn, x, y, delta) == F2D_update_outer(Tg, nn, x, y, delta)

\* The inclusion-exclusion without the corner that was subtracted twice.
F2D_range_sum_no_corner(Tg, nn, x1, y1, x2, y2) ==
  LET s0 == F2D_prefix_sum(Tg, nn, x2, y2)
      s1 == IF x1 > 1 THEN s0 - F2D_prefix_sum(Tg, nn, x1 - 1, y2) ELSE s0
  IN  IF y1 > 1 THEN s1 - F2D_prefix_sum(Tg, nn, x2, y1 - 1) ELSE s1

F2D_range_sum(Tg, nn, x1, y1, x2, y2) ==
  LET s0 == F2D_prefix_sum(Tg, nn, x2, y2)
      s1 == IF x1 > 1 THEN s0 - F2D_prefix_sum(Tg, nn, x1 - 1, y2) ELSE s0
      s2 == IF y1 > 1 THEN s1 - F2D_prefix_sum(Tg, nn, x2, y1 - 1) ELSE s1
  IN  IF x1 > 1 /\ y1 > 1
        THEN s2 + F2D_prefix_sum(Tg, nn, x1 - 1, y1 - 1)
        ELSE s2

\* std::fill_n(T, (n + 1) * (n + 1), 0LL)
F2D_clear(Tg, nn) == ZeroGrid(nn)

\* Fenwick2D::allocate(m)
Init2D ==
  \E m \in 1..Max2dM :
    /\ n = Pow2(m) - 1
    /\ Tgrid = ZeroGrid(Pow2(m) - 1)
    /\ fa = [x \in 1..(Pow2(m) - 1) |-> [y \in 1..(Pow2(m) - 1) |-> 0]]
    /\ nmask = 0 /\ T = <<>> /\ T1 = <<>> /\ T2 = <<>>
    /\ a = <<>> /\ lbit = <<>> /\ rbit = <<>>
    /\ steps = 0
    /\ last = [op |-> "allocate", arr |-> <<>>, aux |-> <<>>]

Update2D(x, y, delta) ==
  /\ Mass2D([fa EXCEPT ![x][y] = @ + delta], n) <= MaxMass
  /\ Tgrid' = F2D_update(Tgrid, n, x, y, delta)
  /\ fa' = [fa EXCEPT ![x][y] = @ + delta]
  /\ last' = [op |-> "update", arr |-> <<>>, aux |-> <<>>]
  /\ UNCHANGED <<n, nmask, T, T1, T2, a, lbit, rbit, steps>>

Clear2D ==
  /\ Tgrid' = F2D_clear(Tgrid, n)
  /\ fa' = [x \in 1..n |-> [y \in 1..n |-> 0]]
  /\ last' = [op |-> "clear", arr |-> <<>>, aux |-> <<>>]
  /\ UNCHANGED <<n, nmask, T, T1, T2, a, lbit, rbit, steps>>

DoUpdate2D == \E x \in 1..n, y \in 1..n, delta \in Deltas : Update2D(x, y, delta)

Next2D == DoUpdate2D \/ Clear2D

Spec2D == Init2D /\ [][Next2D]_vars

----------------------------------------------------------------------------
(* Properties.                                                             *)

\* C1 (FenwickRURQ): after any sequence of update(l, r, delta) calls,
\* range_sum(l', r') equals the sum over [l', r'] of the array in which each
\* update added delta to every a[x] with l <= x <= r.
C1_RangeSumIsShadowSum ==
  \A l \in 1..n : \A r \in l..n :
    RURQ_range_sum(T1, T2, l, r) = SumRange(fa, l, r)

\* C2 (FenwickRMQ): after any sequence of update calls, query(from, to) with
\* 1 <= from <= to <= n returns the minimum of the last values set at
\* from..to, INT_MAX standing for a slot never set.
C2_QueryIsRangeMin ==
  \A from \in 1..n : \A to \in from..n :
    query(a, lbit, rbit, n, from, to) = MinRange(fa, from, to, INT_MAX)

\* A range whose minimum is neither the global minimum nor the last value
\* written, after a slot inside it was raised.
C2_Witness ==
  /\ n >= 4
  /\ last.op = "update"
  /\ last.arr = <<3, 2>>
  /\ fa[1] = 0 /\ fa[2] = 2 /\ fa[4] = 1
  /\ query(a, lbit, rbit, n, 2, 4) = 1
  /\ query(a, lbit, rbit, n, 2, 3) = 2

\* C3 (Fenwick): after any sequence of update, construct, fast_construct and
\* clear calls, every T[i], 1 <= i <= n, is the sum of the fictive a[j] over
\* j in (i - lowBit(i), i].
C3_TreeInvariant ==
  \A i \in 1..n : T[i] = SumRange(fa, i - LowBit(i) + 1, i)

\* The largest tree built by fast_construct from a dense array: 1 everywhere
\* but -1 at index 3, so the inner nodes 2, 4 and 6 sum several elements.
C3_Witness ==
  /\ n = 7
  /\ last.op = "fast_construct"
  /\ last.arr[0] = 5
  /\ fa[3] = -1 /\ fa[6] = 1 /\ fa[7] = 1
  /\ T[2] = 2 /\ T[3] = -1 /\ T[4] = 2 /\ T[6] = 2 /\ T[7] = 1

\* C4 (FenwickRMQ): after any sequence of update calls, lbit[i] is the minimum
\* of a over (i - lowBit(i), i] and rbit[i] the minimum of a over
\* [i, i + lowBit(i)) cut at n, for every i in 1..n.
C4_RmqTreeInvariant ==
  \A i \in 1..n :
    /\ lbit[i] = MinRange(a, i - LowBit(i) + 1, i, INT_MAX)
    /\ rbit[i] = MinRange(a, i, Min2(n, i + LowBit(i) - 1), INT_MAX)

\* a[2] was set to 2, above the minimum 1 its neighbours give node 4 (range
\* 1..4) and node 2 (ranges 1..2 and 2..3); slot 4 was never set.
C4_Witness ==
  /\ n = 5
  /\ last.op = "update"
  /\ last.arr = <<2, 2>>
  /\ a[1] = 1 /\ a[3] = 1 /\ a[4] = INT_MAX /\ a[5] = 0
  /\ lbit[4] = 1 /\ lbit[2] = 1 /\ rbit[2] = 1 /\ rbit[4] = 0

\* C5 (Fenwick): after any sequence of point updates, prefix_sum(k) is
\* a[1] + ... + a[k] and range_sum(l, r) is a[l] + ... + a[r].
C5_SumsMatchShadow ==
  /\ \A k \in 1..n : prefix_sum(T, k) = SumRange(fa, 1, k)
  /\ \A l \in 1..n : \A r \in l..n : range_sum(T, l, r) = SumRange(fa, l, r)

C5_Witness ==
  /\ n = 7
  /\ last.op = "update"
  /\ fa[3] = -1 /\ fa[6] = 1
  /\ prefix_sum(T, 5) = -1
  /\ range_sum(T, 3, 6) = 0
  /\ range_sum(T, 4, 7) = 1

\* C6 (Fenwick): after any sequence of point updates, access(idx) and
\* fast_access(idx) agree, and both return a[idx].
C6_AccessAgree ==
  \A idx \in 1..n :
    /\ access(T, idx) = fast_access(T, idx)
    /\ access(T, idx) = fa[idx]

\* Index 4 makes fast_access walk j over 3, 2, 0, subtracting node 3.
C6_Witness ==
  /\ n = 7
  /\ last.op = "update"
  /\ fa[3] = 1 /\ fa[4] = -1
  /\ T[3] = 1 /\ T[4] = 0
  /\ fast_access(T, 4) = -1

\* C7 (Fenwick): after any sequence of point updates, range_sum(l, r) and
\* fast_range_sum(l, r) agree for every 1 <= l <= r <= n.
C7_RangeSumAgree ==
  \A l \in 1..n : \A r \in l..n : range_sum(T, l, r) = fast_range_sum(T, l, r)

C7_Witness ==
  /\ n = 7
  /\ last.op = "update"
  /\ fa[2] = 1 /\ fa[5] = 1
  /\ fast_range_sum(T, 3, 6) = 1
  /\ fast_range_sum(T, 2, 7) = 2

\* Values searched for: from below every prefix sum of a non-negative array
\* to above the largest total an array of the model has.
SearchVals == -2..(Pow2(MaxM) + MaxArrVal)

\* C8 (Fenwick): when every element of the fictive array is >= 0, search(val)
\* and fast_search(val) return the same index for every val, val <= 0 and
\* val above the total sum included.
C8_SearchAgree ==
  (\A i \in 1..n : fa[i] >= 0) =>
     \A val \in SearchVals : search(T, n, val) = fast_search(T, n, nmask, val)

\* The largest tree built from 1, 1, 0, 1, 1, 1, 1: the prefix sums have a
\* plateau, and searches end at the front, in the middle and past the end.
C8_Witness ==
  /\ n = 7
  /\ last.op = "construct"
  /\ \A i \in 1..n : fa[i] = IF i = 3 THEN 0 ELSE 1
  /\ fast_search(T, n, nmask, -1) = 1
  /\ fast_search(T, n, nmask, 2) = 2
  /\ fast_search(T, n, nmask, 3) = 4
  /\ fast_search(T, n, nmask, 6) = 7
  /\ fast_search(T, n, nmask, 7) = 8

\* The least element of a non-empty set of integers.
Least(S) == CHOOSE k \in S : \A j \in S : k <= j

\* C9 (Fenwick): for any contents, negative elements included, search(val) is
\* the smallest k in 1..n with prefix_sum(k) >= val, and n + 1 when there is
\* none.
C9_SearchIsLeast ==
  \A val \in SearchVals :
    LET S == {k \in 1..n : prefix_sum(T, k) >= val} IN
    search(T, n, val) = IF S = {} THEN n + 1 ELSE Least(S)

\* The largest tree built from 1, 1, -1, 1, 1, 1, 1: the prefix sums
\* 1, 2, 1, 2, 3, 4, 5 go down and up again.
C9_Witness ==
  /\ n = 7
  /\ last.op = "construct"
  /\ \A i \in 1..n : fa[i] = IF i = 3 THEN -1 ELSE 1
  /\ search(T, n, 0) = 1
  /\ search(T, n, 2) = 2
  /\ search(T, n, 3) = 5
  /\ search(T, n, 6) = 8

\* C10 (Fenwick): after construct(arr), access(i) returns arr[i] for every i
\* in 1..n.
C10_ConstructThenAccess ==
  last.op = "construct" =>
     \A i \in 1..n : access(T, i) = last.arr[i]

C10_Witness ==
  /\ n = 7
  /\ last.op = "construct"
  /\ last.arr[3] = -1 /\ last.arr[6] = 1
  /\ T[4] = 2 /\ T[6] = 2
  /\ access(T, 3) = -1 /\ access(T, 6) = 1

\* C11: after fast_construct on a copy of arr, whatever the tree held
\* before, access(i) returns the original arr[i] for every i in 1..n.
C11_FastConstructThenAccess ==
  last.op = "fast_construct" =>
    \A i \in 1..n : access(T, i) = last.arr[i]

\* fast_construct of 1,1,-1,1,1,1,1, with 5 in the unused slot 0, and
\* access(3) gives back -1.
C11_Witness ==
  /\ last.op = "fast_construct"
  /\ n = 7
  /\ last.arr = ArrayOf(7, 3, -1, 1, 5)
  /\ access(T, 3) = -1
  /\ access(T, 4) = 1

\* C12: after any sequence of update(x, y, delta) on an allocated grid,
\* range_sum(x1, y1, x2, y2) is the double sum of the fictive grid over
\* x1..x2 and y1..y2, for every 1 <= x1 <= x2 <= n and 1 <= y1 <= y2 <= n.
C12_RangeSum2DIsGridSum ==
  \A x1 \in 1..n, y1 \in 1..n :
    \A x2 \in x1..n, y2 \in y1..n :
      F2D_range_sum(Tgrid, n, x1, y1, x2, y2) = GridSum(fa, x1, x2, y1, y2)

\* A 3 x 3 grid with a[1][1] = -1 and a[2][2] = 1: the range (2,2)..(3,3)
\* takes all four prefix sums and returns 1, the whole grid sums to 0.
C12_Witness ==
  /\ n = 3
  /\ last.op = "update"
  /\ fa[1][1] = -1
  /\ fa[2][2] = 1
  /\ F2D_range_sum(Tgrid, n, 2, 2, 3, 3) = 1
  /\ F2D_range_sum(Tgrid, n, 1, 1, 3, 3) = 0

\* C20: in every state reached by update and clear calls, the stored cell
\* of (x, y) is the sum of the fictive grid over (x - lowBit(x), x] and
\* (y - lowBit(y), y].
C20_Tree2DInvariant ==
  \A x \in 1..n, y \in 1..n :
    Tgrid[(n + 1) * y + x] =
      GridSum(fa, x - LowBit(x) + 1, x, y - LowBit(y) + 1, y)

\* A 3 x 3 grid after an update: a[1][1] = 2 is stored in the cells of
\* (2,1), (1,2) and (2,2), and not in the cell of (3,3).
C20_Witness ==
  /\ n = 3
  /\ last.op = "update"
  /\ fa[1][1] = 2
  /\ Tgrid[(n + 1) * 2 + 2] = 2
  /\ Tgrid[(n + 1) * 1 + 2] = 2
  /\ Tgrid[(n + 1) * 2 + 1] = 2
  /\ Tgrid[(n + 1) * 3 + 3] = 0

\* C13: a query(from, to) with from < 1, or to > n, or from > to returns
\* INT_MAX, reads no slot outside 0..n, and leaves a, lbit and rbit
\* unchanged.
C13_InvalidQuery ==
  [][(/\ last'.op = "query"
      /\ \/ last'.arr[1] < 1
         \/ last'.arr[2] > n
         \/ last'.arr[1] > last'.arr[2])
     => /\ last'.aux[1] = INT_MAX
        /\ \A s \in last'.aux[2] : s[2] \in 0..n
        /\ UNCHANGED <<a, lbit, rbit>>]_vars

\* query(1, 4) on a FenwickRMQ of size 3 whose a[1] and a[3] are set: the
\* range reaches past n, the call returns INT_MAX and a, lbit and rbit still
\* describe the array.
C13_Witness ==
  /\ n = 3
  /\ last.op = "query"
  /\ last.arr = <<1, 4>>
  /\ last.aux = <<INT_MAX, {}>>
  /\ a[1] = 1 /\ a[3] = 0
  /\ lbit[2] = 1 /\ rbit[2] = 0

\* C19: update(idx, val) with val equal to the current a[idx] leaves a,
\* lbit and rbit unchanged; val = INT_MAX on a never-set slot is one case.
C19_SameValueIsNoOp ==
  [][(/\ last'.op = "update"
      /\ a[last'.arr[1]] = last'.arr[2])
     => UNCHANGED <<a, lbit, rbit>>]_vars

\* update(3, 2) made when a[3] was already 2, with the smaller a[2] = 0 in
\* the nodes lbit[3]'s chain and rbit[2] cover.
C19_Witness ==
  /\ n = 3
  /\ last.op = "update"
  /\ last.arr = <<3, 2>>
  /\ last.aux = <<2>>
  /\ a[3] = 2 /\ a[2] = 0 /\ a[1] = INT_MAX
  /\ rbit[2] = 0 /\ lbit[3] = 2

\* C14 as stated: with n = 7 and the tree built by construct from
\* a[1..7] = 5,3,8,1,9,2,7, range_sum(3, 6) returns 21.
C14_RangeSumIs21 ==
  (last.op = "construct" /\ last.arr = ExampleArr) =>
    range_sum(T, 3, 6) = 21

\* C14 amended: in that state range_sum(3, 6) returns
\* a[3] + a[4] + a[5] + a[6] = 8 + 1 + 9 + 2 = 20.
C14_RangeSumIs20 ==
  (last.op = "construct" /\ last.arr = ExampleArr) =>
    /\ range_sum(T, 3, 6) = 20
    /\ range_sum(T, 3, 6) = SumRange(ExampleArr, 3, 6)

\* The tree of the worked example, where range_sum(3, 6) is 20, and 21 is
\* the sum one index to the left, range_sum(2, 5).
C14_Witness ==
  /\ n = 7
  /\ last.op = "construct"
  /\ last.arr = ExampleArr
  /\ range_sum(T, 3, 6) = 20
  /\ range_sum(T, 2, 5) = 21

\* C15: with n = 7 and the tree built by construct from
\* a[1..7] = 5,3,8,1,9,2,7, prefix_sum(4) returns 17 and search(9) returns 3.
C15_PrefixAndSearch ==
  (last.op = "construct" /\ last.arr = ExampleArr) =>
    /\ prefix_sum(T, 4) = 17
    /\ search(T, n, 9) = 3

\* The tree of the worked example: the prefix sums 5, 8, 16, 17 make
\* search(9) return 3.
C15_Witness ==
  /\ n = 7
  /\ last.op = "construct"
  /\ last.arr = ExampleArr
  /\ prefix_sum(T, 2) = 8
  /\ prefix_sum(T, 3) = 16
  /\ prefix_sum(T, 4) = 17
  /\ search(T, n, 9) = 3

\* C16: on a fresh FenwickRMQ of size 5, once update(1,5), update(2,3),
\* update(3,1), update(4,4), update(5,2) have made the array 5,3,1,4,2,
\* query(2, 4) returns 1; once a further update(3,10) has made it
\* 5,3,10,4,2, query(2, 4) returns 3.
C16_ExampleQueries ==
  /\ fa = ExampleVals => query(a, lbit, rbit, n, 2, 4) = 1
  /\ (fa = [ExampleVals EXCEPT ![3] = 10] /\ last.arr = <<3, 10>>) =>
       query(a, lbit, rbit, n, 2, 4) = 3

\* The array 5,3,10,4,2 right after update(3,10): query(2, 4) is 3, and the
\* nodes over index 3 no longer hold the 1 it replaced.
C16_Witness ==
  /\ fa = [ExampleVals EXCEPT ![3] = 10]
  /\ last.arr = <<3, 10>>
  /\ query(a, lbit, rbit, n, 2, 4) = 3
  /\ lbit[4] = 3
  /\ rbit[2] = 3

\* C17: fast_construct(a) leaves in the caller's array a[0] = 0 and
\* a[i] = orig[1] + ... + orig[i] for every i in 1..n, whatever a[0] held
\* before the call.
C17_CallerArrayIsCumulative ==
  last.op = "fast_construct" =>
    /\ last.aux[0] = 0
    /\ \A i \in 1..n : last.aux[i] = SumRange(last.arr, 1, i)

\* fast_construct of 1,1,-1,1,1,1,1 with 5 in slot 0: the caller's array
\* comes back as 0,1,2,1,2,3,4,5.
C17_Witness ==
  /\ last.op = "fast_construct"
  /\ n = 7
  /\ last.arr = ArrayOf(7, 3, -1, 1, 5)
  /\ last.arr[0] = 5
  /\ last.aux[0] = 0
  /\ last.aux[3] = 1
  /\ last.aux[7] = 5

\* C18: on an allocated or cleared tree mutated only by rupq_update(l, r,
\* delta), rupq_access(idx) is, for every idx in 1..n, the sum of delta
\* over the updates with l <= idx <= r.
C18_RupqAccessIsShadow ==
  \A idx \in 1..n : rupq_access(T, idx) = fa[idx]

\* Two overlapping range updates, the second ending before n:
\* rupq_update(1, 3, 2) and rupq_update(2, 2, -1) give the array 2, 1, 2.
C18_Witness ==
  /\ n = 3
  /\ steps = 2
  /\ last.op = "rupq_update"
  /\ last.arr = <<2, 2, -1>>
  /\ fa = <<2, 1, 2>>
  /\ rupq_access(T, 2) = 1
  /\ rupq_access(T, 3) = 2

\* C21: FenwickRURQ::update(l, r, delta) leaves T1 as after
\* update(l, delta) and, only when r < n, update(r + 1, -delta), and T2 as
\* after update(l, delta * (l - 1)) and, only when r < n,
\* update(r + 1, delta * r); with r = n each tree gets the update at l only.
C21_UpdateIsFourPointUpdates ==
  [][last'.op = "update" =>
       LET l == last'.arr[1]
           r == last'.arr[2]
           delta == last'.arr[3]
       IN /\ r < n => /\ T1' = update(update(T1, n, l, delta), n, r + 1, -delta)
                      /\ T2' = update(update(T2, n, l, delta * (l - 1)),
                                      n, r + 1, delta * r)
          /\ r = n => /\ T1' = update(T1, n, l, delta)
                      /\ T2' = update(T2, n, l, delta * (l - 1))]_vars

\* The first call update(2, 2, 1) on a FenwickRURQ of size 3: T1 holds
\* 0, 1, -1 and T2 holds 0, 1, 2, the 2 being delta * r at r + 1 = 3.
C21_Witness ==
  /\ n = 3
  /\ steps = 1
  /\ last.op = "update"
  /\ last.arr = <<2, 2, 1>>
  /\ T1[1] = 0 /\ T1[2] = 1 /\ T1[3] = -1
  /\ T2[1] = 0 /\ T2[2] = 1 /\ T2[3] = 2

\* C27: on a fresh FenwickRURQ, after any sequence of update(l, n, delta)
\* calls, prefix_sum(idx) is a[1] + ... + a[idx] of the fictive array for
\* every idx in 1..n.
C27_SuffixPrefixSum ==
  \A idx \in 1..n : RURQ_prefix_sum(T1, T2, idx) = SumRange(fa, 1, idx)

\* update(2, 3, 2) then update(3, 3, -1) on size 3: the array is 0, 2, 1
\* and the prefix sums are 0, 2, 3.
C27_Witness ==
  /\ n = 3
  /\ steps = 2
  /\ last.arr = <<3, 3, -1>>
  /\ fa = <<0, 2, 1>>
  /\ RURQ_prefix_sum(T1, T2, 2) = 2
  /\ RURQ_prefix_sum(T1, T2, 3) = 3

\* C22: construct(arr) gives the same T[1..n] whatever T[1..n] held before
\* the call (after updates or an earlier construct, with no clear between)
\* as construct(arr) on a freshly allocated tree.
C22_ConstructIgnoresPrior ==
  last.op = "construct" =>
    \A i \in 1..n : T[i] = construct(Zeros(n), n, last.arr)[i]

\* construct of 1,1,-1,1,1,1,1 on a tree that held values other than 0:
\* T is that of a fresh tree, T[4] = 2 and T[6] = 2.
C22_Witness ==
  /\ last.op = "construct"
  /\ last.aux = <<TRUE>>
  /\ n = 7
  /\ last.arr = ArrayOf(7, 3, -1, 1, 0)
  /\ T[3] = -1 /\ T[4] = 2 /\ T[6] = 2

\* C26: for every array arr[1..n], construct(arr) and fast_construct on a
\* copy of arr give the same T[1..n], whatever the tree held before: the
\* tree one of them has just built is the tree the other builds over it.
C26_ConstructsAgree ==
  /\ last.op = "construct" =>
       \A i \in 1..n : fast_construct(T, n, last.arr)[i] = T[i]
  /\ last.op = "fast_construct" =>
       \A i \in 1..n : construct(T, n, last.arr)[i] = T[i]

\* fast_construct of 0,0,0,0,-1,0,0 with 5 in slot 0: T[5] = T[6] = -1 and
\* T[4] = 0, as construct builds them.
C26_Witness ==
  /\ last.op = "fast_construct"
  /\ n = 7
  /\ last.arr = ArrayOf(7, 5, -1, 0, 5)
  /\ T[4] = 0 /\ T[5] = -1 /\ T[6] = -1 /\ T[7] = 0
  /\ construct(T, n, last.arr)[6] = -1

\* C24: fast_access(idx) terminates for every idx in 1..n and any tree
\* contents: the pointers meet, i stays at idx - lowBit(idx) (the i > j
\* branch is never taken), and the loop makes as many iterations as idx has
\* trailing zero bits, so at most m - 1.
C24_FastAccessTerminates ==
  \A idx \in 1..n :
    LET t == fast_access_trace(n, idx) IN
    /\ t.done
    /\ t.imoves = 0
    /\ t.i = idx - LowBit(idx)
    /\ t.iters = TrailingZeros(idx)
    /\ t.iters <= Log2(nmask)

\* A tree of order 3 with a[4] = 1: fast_access(4) walks j from 3 to 2 to 0,
\* two iterations (m - 1 = 2), with i at 0 throughout, and returns 1.
C24_Witness ==
  /\ n = 7
  /\ last.op = "update"
  /\ fa[4] = 1
  /\ fast_access(T, 4) = 1
  /\ fast_access_trace(n, 4) =
       [done |-> TRUE, iters |-> 2, imoves |-> 0, i |-> 0]
  /\ fast_access_trace(n, 6).iters = 1
  /\ fast_access_trace(n, 7).iters = 0

\* C25: on a tree made by allocate(m), for every val and any tree contents,
\* each candidate i + mask of fast_search's descent is in 1..n, the ii > n
\* skip is never taken, and the index returned is in 1..n + 1.
C25_FastSearchInRange ==
  \A val \in SearchVals :
    LET t == fast_search_trace(T, n, nmask, val) IN
    /\ t.cands \subseteq 1..n
    /\ t.skips = 0
    /\ t.ret \in 1..(n + 1)
    /\ t.ret = fast_search(T, n, nmask, val)

\* A tree of order 3 with a[3] = 1 and a[6] = 1: fast_search(2) tries the
\* candidates 4, 6 and 5, and returns 6; fast_search(3) tries 4, 6 and 7,
\* and returns n + 1 = 8.
C25_Witness ==
  /\ n = 7
  /\ fa[3] = 1 /\ fa[6] = 1
  /\ fast_search_trace(T, n, nmask, 2) =
       [ret |-> 6, skips |-> 0, cands |-> {4, 5, 6}]
  /\ fast_search_trace(T, n, nmask, 3) =
       [ret |-> 8, skips |-> 0, cands |-> {4, 6, 7}]

\* C23: update(idx, val) changes only a[idx], the lbit entries on the
\* ascending chain idx, idx + lowBit(idx), ... <= n and the rbit entries on
\* the descending chain idx, idx - lowBit(idx), ... >= 1; and a chain node
\* whose aggregate is smaller than both the old a[idx] and val is left as
\* it is.
C23_UpdateFrame ==
  [][last'.op = "update" =>
       LET idx == last'.arr[1]
           val == last'.arr[2]
           old == a[idx]
       IN /\ \A i \in (0..n) \ {idx} : a'[i] = a[i]
          /\ \A i \in (0..n) \ UpChain(idx, n) : lbit'[i] = lbit[i]
          /\ \A i \in (0..n) \ DownChain(idx) : rbit'[i] = rbit[i]
          /\ \A i \in UpChain(idx, n) :
               (lbit[i] < old /\ lbit[i] < val) => lbit'[i] = lbit[i]
          /\ \A i \in DownChain(idx) :
               (rbit[i] < old /\ rbit[i] < val) => rbit'[i] = rbit[i]]_vars

\* update(1, 2) made when a[1] was 1, next to a[2] = 0 and a[3] = 1: the
\* chain node lbit[2] holds 0, smaller than 1 and 2, and keeps it; lbit[1]
\* and rbit[1] take the 2; a[2], a[3], lbit[3] and rbit[2], rbit[3] are off
\* the chains.
C23_Witness ==
  /\ n = 3
  /\ last.op = "update"
  /\ last.arr = <<1, 2>>
  /\ last.aux = <<1>>
  /\ a[1] = 2 /\ a[2] = 0 /\ a[3] = 1
  /\ lbit[1] = 2 /\ lbit[2] = 0 /\ lbit[3] = 1
  /\ rbit[1] = 2 /\ rbit[2] = 0 /\ rbit[3] = 1

====
